---- MODULE Spec2Model ----
(***************************************************************************)
(* The client-side maintenance-notification scheduler of the bonsai app:   *)
(* NotificationService (src/src/services/notificationService.ts, first     *)
(* class, lines 6-272) with the MAINTENANCE_SCHEDULES table, and the       *)
(* callers that drive it: the tree store (src/src/store/bonsaiStore.ts)    *)
(* and the edit form (src/src/components/EditTreeForm.tsx).                *)
(*                                                                         *)
(* Instants are counted in ticks of 100 ms since 2023-01-01T00:00 local    *)
(* time (Ms converts a millisecond literal of the source to ticks), so     *)
(* that 365-day intervals fit TLC's integers while delays below, at and    *)
(* above the 1000 ms threshold stay distinct.  Days have 24 hours.         *)
(***************************************************************************)
EXTENDS Integers, Sequences, FiniteSets, TLC

VARIABLES
    calc,                      \* the calculation check: inputs and the timer armed
    clock,                     \* what new Date() returns
    notificationSupported,     \* 'Notification' in window
    serviceWorkerSupported,    \* 'serviceWorker' in navigator
    permission,                \* Notification.permission
    initialized,               \* NotificationService.initialized
    initializationError,       \* NotificationService.initializationError is set
    serviceWorkerRegistration, \* NotificationService.serviceWorkerRegistration is set
    notificationTimers,        \* NotificationService.notificationTimers: key -> handle
    timeouts,                  \* the platform's pending setTimeout callbacks: handle -> closure
    nextHandle,                \* the handle the next setTimeout returns
    calls,                     \* updateMaintenanceSchedule calls suspended at their await
    draining,                  \* the microtask queue has begun to run the suspended calls
    presenting,                \* timer callbacks suspended at await showNotification
    notificationSettings,      \* per tree, the tree document's notificationSettings
    signedIn,                  \* a user is signed in (the store's listener is subscribed)
    deletedTrees,              \* the trees deleted through the store
    settled,                   \* how the call that settled last ended
    issued,                    \* history: number of operations the application has begun
    permissionChanges,         \* history: number of times the user changed the permission
    disabledDone,              \* history: per key, a disable completed while no enable of the
                               \* application was suspended, and none was issued since
    timestampTriggerSupported, \* the worker's global scope has TimestampTrigger
    notificationList,          \* the platform's notifications, shown or scheduled to show
    lastMaintenance,           \* per key, the tree document's lastMaintenance[type]
    notifications,             \* per key, the tree document's notifications[type]
    skipped,                   \* history: the timer callback that ran last returned early
    treeDocs,                  \* Firestore: the user's tree documents, by id
    trees,                     \* per window, the store's trees (the last snapshot received)
    error,                     \* per window, the store's error
    subscription,              \* subscriptionStore.subscription
    clients,                   \* the application windows that are open
    messages,                  \* per window, the worker's messages not yet handled
    logged,                    \* history: the addMaintenanceLog calls that succeeded
    doneChosen                 \* history: number of done actions chosen

serviceVars ==
    <<initialized, initializationError, serviceWorkerRegistration>>
platformVars ==
    <<notificationSupported, serviceWorkerSupported, timestampTriggerSupported>>
docVars == <<lastMaintenance, notifications>>
timerVars == <<notificationTimers, timeouts, nextHandle>>
storeVars ==
    <<notificationSettings, signedIn, deletedTrees, permissionChanges>>
appVars ==
    <<treeDocs, trees, error, subscription, clients, messages, logged, doneChosen>>
vars ==
    <<calc, clock, notificationSupported, serviceWorkerSupported, permission,
      initialized, initializationError, serviceWorkerRegistration,
      notificationTimers, timeouts, nextHandle, calls, draining, presenting,
      notificationSettings, signedIn, deletedTrees, settled, issued,
      disabledDone, permissionChanges, timestampTriggerSupported,
      notificationList, lastMaintenance, notifications, skipped, treeDocs,
      trees, error, subscription, clients, messages, logged, doneChosen>>

----------------------------------------------------------------------------
(* Time arithmetic of the JavaScript Date object *)

Ms(n) == n \div 100

Second == Ms(1000)
Minute == 60 * Second
Hour == 60 * Minute
Day == 24 * Hour

getHours(t) == (t % Day) \div Hour
getMinutes(t) == (t % Hour) \div Minute
getSeconds(t) == (t % Minute) \div Second
getMilliseconds(t) == t % Second

\* Date.prototype.setHours(h) etc.: replace one field, keep the others;
\* an out-of-range value (minutes = 60) rolls over into the next field.
setHours(t, h) == t - getHours(t) * Hour + h * Hour
setMinutes(t, m) == t - getMinutes(t) * Minute + m * Minute
setSeconds(t, s) == t - getSeconds(t) * Second + s * Second
setMilliseconds(t, ms) == t - getMilliseconds(t) + Ms(ms)

\* Date.prototype.toISOString(): the instant as its calendar fields
toISOString(t) ==
    [day |-> t \div Day, hours |-> getHours(t), minutes |-> getMinutes(t),
     seconds |-> getSeconds(t), millis |-> getMilliseconds(t)]

\* new Date(isoString): the instant the fields denote
NewDate(iso) ==
    iso.day * Day + iso.hours * Hour + iso.minutes * Minute
        + iso.seconds * Second + iso.millis

----------------------------------------------------------------------------
(* MAINTENANCE_SCHEDULES *)

MaintenanceTypes ==
    {"watering", "fertilizing", "pruning", "wiring", "repotting", "other"}

Interval(type) ==
    CASE type = "watering"    -> 2 * 24 * 60 * 60 * Ms(1000)
      [] type = "fertilizing" -> 14 * 24 * 60 * 60 * Ms(1000)
      [] type = "pruning"     -> 30 * 24 * 60 * 60 * Ms(1000)
      [] type = "wiring"      -> 60 * 24 * 60 * 60 * Ms(1000)
      [] type = "repotting"   -> 365 * 24 * 60 * 60 * Ms(1000)
      [] type = "other"       -> 7 * 24 * 60 * 60 * Ms(1000)

----------------------------------------------------------------------------
(* The schedule calculation of updateMaintenanceSchedule.  An optional     *)
(* argument is <<>> when absent and <<v>> when present.                    *)

DefaultHours == 9
DefaultMinutes == 0

\* notificationTime?.hours ?? 9, notificationTime?.minutes ?? 0
HoursOf(notificationTime) ==
    IF notificationTime = <<>> THEN DefaultHours ELSE notificationTime[1].hours
MinutesOf(notificationTime) ==
    IF notificationTime = <<>> THEN DefaultMinutes ELSE notificationTime[1].minutes

\* a variant that sets the hours and minutes and keeps the seconds
SnapToTimeKeepSeconds(t, notificationTime) ==
    setMinutes(setHours(t, HoursOf(notificationTime)), MinutesOf(notificationTime))

\* setHours; setMinutes; setSeconds(0); setMilliseconds(0)
SnapToTime(t, notificationTime) ==
    setMilliseconds(
        setSeconds(
            setMinutes(setHours(t, HoursOf(notificationTime)),
                       MinutesOf(notificationTime)),
            0),
        0)

BaseDate(type, lastPerformed, notificationTime, now) ==
    IF lastPerformed # <<>>
    THEN NewDate(lastPerformed[1])
    ELSE SnapToTime(now, notificationTime) - Interval(type)

\* a variant that adds one interval at most (an if in place of the while)
AddIntervalsOnce(nextDate, now, interval) ==
    IF nextDate <= now THEN nextDate + interval ELSE nextDate

\* a variant whose loop accepts a candidate equal to now (< in place of <=)
RECURSIVE AddIntervalsStrict(_, _, _)
AddIntervalsStrict(nextDate, now, interval) ==
    IF nextDate < now
    THEN AddIntervalsStrict(nextDate + interval, now, interval)
    ELSE nextDate

\* a variant whose loop adds one interval more than needed
RECURSIVE AddIntervalsOvershoot(_, _, _)
AddIntervalsOvershoot(nextDate, now, interval) ==
    IF nextDate <= now
    THEN AddIntervalsOvershoot(nextDate + interval, now, interval)
    ELSE IF nextDate - interval <= now THEN nextDate + interval ELSE nextDate

\* while (nextDate <= now) nextDate += interval
RECURSIVE AddIntervals(_, _, _)
AddIntervals(nextDate, now, interval) ==
    IF nextDate <= now
    THEN AddIntervals(nextDate + interval, now, interval)
    ELSE nextDate

FirstNextDate(type, lastPerformed, notificationTime, now) ==
    SnapToTime(BaseDate(type, lastPerformed, notificationTime, now) + Interval(type),
               notificationTime)

\* the threshold of the safeguard and of the early-fire check, 1000 ms
SafetyThreshold == Ms(1000)

\* What one enabled call computes at the instant now: the values its timer
\* callback closes over.  timeUntilNotification is a const taken before
\* the safeguard, and it is the delay given to setTimeout; the safeguard
\* changes nextDate only.
Schedule(type, lastPerformed, notificationTime, now) ==
    LET looped == AddIntervals(
                      FirstNextDate(type, lastPerformed, notificationTime, now),
                      now, Interval(type))
        timeUntilNotification == looped - now
    IN  [now |-> now,
         timeUntilNotification |-> timeUntilNotification,
         nextDate |-> IF timeUntilNotification <= SafetyThreshold
                      THEN looped + Interval(type)
                      ELSE looped]

\* the instant at which the platform timer is due: arming instant plus delay
DueInstant(t) == t.now + t.timeUntilNotification

\* utils/notifications: the module's notification time preference
utilsNotificationTime == <<[hours |-> DefaultHours, minutes |-> DefaultMinutes]>>

\* utils/notifications: if (nextDate < new Date()) nextDate = addDays(...)
utilsAddInterval(nextDate, now, interval) ==
    IF nextDate < now THEN nextDate + interval ELSE nextDate

\* What scheduleNotification of utils/notifications computes at the instant
\* now: lastDate is lastPerformed or now, nextDate is one interval later at
\* the preferred hours and minutes (seconds kept), moved by one interval
\* when it is past; the delay given to setTimeout is Math.max(0, ...).
scheduleNotification(type, lastPerformed, now) ==
    LET lastDate == IF lastPerformed # <<>> THEN NewDate(lastPerformed[1]) ELSE now
        nextDate == utilsAddInterval(
                        SnapToTimeKeepSeconds(lastDate + Interval(type),
                                              utilsNotificationTime),
                        now, Interval(type))
        timeUntilNotification == nextDate - now
    IN  [now |-> now,
         lastDate |-> lastDate,
         nextDate |-> nextDate,
         timeUntilNotification |-> timeUntilNotification,
         delay |-> IF timeUntilNotification < 0 THEN 0 ELSE timeUntilNotification]

----------------------------------------------------------------------------
(* Inputs of the calculation check *)

\* 2024-01-01 and 2024-06-01 as day numbers since 2023-01-01
Day20240101 == 31 + 28 + 31 + 30 + 31 + 30 + 31 + 31 + 30 + 31 + 30 + 31
Day20240601 == Day20240101 + 31 + 29 + 31 + 30 + 31

At(day, h, m, s, ms) == day * Day + h * Hour + m * Minute + s * Second + Ms(ms)

NowInputs ==
    { At(Day20240101, 9, 0, 0, 0),   At(Day20240101, 8, 59, 59, 500),
      At(Day20240101, 8, 59, 59, 0), At(Day20240101, 8, 59, 58, 900),
      At(Day20240101, 8, 59, 0, 0),  At(Day20240101, 9, 0, 0, 100),
      At(Day20240101, 0, 0, 0, 0),   At(Day20240101, 14, 29, 59, 700),
      At(Day20240101, 23, 59, 59, 900), At(Day20240601, 12, 0, 0, 0) }

LastPerformedInputs ==
    { <<>> } \cup
    { <<toISOString(t)>> : t \in
        { At(0, 0, 0, 0, 0),                 \* 2023-01-01, far in the past
          At(Day20240101 - 30, 17, 45, 12, 300),
          At(Day20240101 - 2, 9, 0, 0, 0),
          At(Day20240101 - 2, 8, 59, 59, 500),
          At(Day20240101 - 1, 23, 0, 0, 0),
          At(Day20240101, 8, 0, 0, 0),
          At(Day20240101 + 3, 15, 0, 30, 500) } }   \* in the future

NotificationTimeInputs ==
    { <<>> } \cup
    { <<[hours |-> hm[1], minutes |-> hm[2]]>> : hm \in
        { <<9, 0>>, <<0, 0>>, <<23, 59>>, <<14, 30>>, <<9, 1>> } }

\* the longest run of the while loop the check evaluates
MaxIntervalsAdded == 120
\* the number of fires of the utils timer that are followed
MaxUtilsFires == 2

CalcInputs ==
    { i \in [type : MaintenanceTypes, lastPerformed : LastPerformedInputs,
             notificationTime : NotificationTimeInputs, now : NowInputs] :
        \/ i.lastPerformed = <<>>
        \/ (i.now - NewDate(i.lastPerformed[1])) \div Interval(i.type)
               < MaxIntervalsAdded }

NotArmed == <<>>

----------------------------------------------------------------------------
(* The service as a state machine.  A call of updateMaintenanceSchedule    *)
(* runs synchronously up to `await this.ensureInitialized()`, is suspended *)
(* there, and runs the rest of its body in one piece when resumed (the     *)
(* body has no other await).  Suspended calls whose wait is a chain of     *)
(* already-settled promises are resumed by the microtask queue before any  *)
(* timer or event runs; a call that waits for the service worker is        *)
(* resumed by the platform.                                                *)

\* key = `${treeId}-${type}`
KeyOf(treeId, type) == <<treeId, type>>
Keys == {KeyOf("t1", "watering"), KeyOf("t2", "fertilizing")}
TreeIds == {k[1] : k \in Keys}

NoHandle == 0

\* bounds of the exploration
MaxIssued == 2
MaxPermissionChanges == 1
MaxTimers == 6
MaxDays == 5

ClockInputs ==
    { At(Day20240101, 8, 59, 59, 500), At(Day20240101, 9, 0, 0, 0),
      At(Day20240101 + 1, 10, 0, 0, 0) }
MaxClock == At(Day20240101 + MaxDays, 0, 0, 0, 0)

UpdateLastPerformedInputs ==
    { <<>>, <<toISOString(At(Day20240101 - 2, 9, 0, 0, 0))>> }
\* the notificationSettings of the tree documents when the session starts:
\* none for t1 (the 09:00 default applies), 08:30 for t2
NotificationSettings(treeId) ==
    IF treeId = "t1" THEN <<>> ELSE <<[hours |-> 8, minutes |-> 30]>>

\* the time-of-day the user may change a tree's setting to
NewSettings == { <<[hours |-> 14, minutes |-> 30]>> }

\* the calls the store makes (snapshot handler, addTree, addMaintenanceLog,
\* updateTree): no notificationTime is passed
StoreCalls ==
    { [treeId |-> k[1], type |-> k[2], enabled |-> TRUE, lastPerformed |-> lp,
       notificationTime |-> <<>>] :
         k \in Keys, lp \in UpdateLastPerformedInputs }

\* the calls the edit form makes for a tree that has settings: the form's
\* notificationSettings are passed
FormCalls ==
    { [treeId |-> k[1], type |-> k[2], enabled |-> TRUE, lastPerformed |-> lp,
       notificationTime |-> notificationSettings[k[1]]] :
         k \in {q \in Keys : notificationSettings[q[1]] # <<>>},
         lp \in UpdateLastPerformedInputs }

\* a disable (updateTree, the edit form) carries nothing the body reads
DisableCalls ==
    { [treeId |-> k[1], type |-> k[2], enabled |-> FALSE, lastPerformed |-> <<>>,
       notificationTime |-> <<>>] : k \in Keys }

\* the arguments of the calls the application makes
UpdateInputs == StoreCalls \cup FormCalls \cup DisableCalls

\* how a call ended: result is "none" before any call has settled
\* stored: the call was rejected by ensureInitialized with the stored error
NothingSettled ==
    [renewal |-> FALSE, result |-> "none", cleared |-> FALSE, stored |-> FALSE]
Settle(c, result, cleared) ==
    [renewal |-> c.renewalOf # <<>>, result |-> result, cleared |-> cleared,
     stored |-> FALSE]

NoCalc ==
    [input |-> [type |-> "watering", lastPerformed |-> <<>>,
                notificationTime |-> <<>>, now |-> 0],
     armed |-> NotArmed, scheduled |-> <<>>]

ServiceInit ==
    /\ clock = At(Day20240101, 8, 59, 59, 500)
    /\ notificationSupported \in BOOLEAN
    /\ serviceWorkerSupported \in BOOLEAN
    /\ timestampTriggerSupported \in BOOLEAN
    /\ timestampTriggerSupported => (notificationSupported /\ serviceWorkerSupported)
    /\ permission = "granted"
    /\ initialized = FALSE
    /\ initializationError = FALSE
    /\ serviceWorkerRegistration = FALSE
    /\ notificationTimers = [k \in Keys |-> NoHandle]
    /\ timeouts = <<>>
    /\ nextHandle = 1
    /\ calls = <<>>
    /\ draining = FALSE
    /\ presenting = {}
    /\ notificationSettings = [t \in TreeIds |-> NotificationSettings(t)]
    /\ signedIn = TRUE
    /\ deletedTrees = {}
    /\ settled = NothingSettled
    /\ issued = 0
    /\ permissionChanges = 0
    /\ disabledDone = [k \in Keys |-> FALSE]
    /\ notificationList = {}
    /\ lastMaintenance = [k \in Keys |-> <<>>]
    /\ notifications = [k \in Keys |-> TRUE]
    /\ skipped = FALSE

\* the application windows
Windows == {"w1", "w2"}

\* no window is open and the user has no tree
NoApp ==
    /\ treeDocs = <<>>
    /\ trees = [w \in Windows |-> <<>>]
    /\ error = [w \in Windows |-> <<>>]
    /\ subscription = <<>>
    /\ clients = {}
    /\ messages = [w \in Windows |-> <<>>]
    /\ logged = <<>>
    /\ doneChosen = 0

Init == calc = NoCalc /\ ServiceInit /\ NoApp

\* setTimeout handles still available to the calls and callbacks in flight
Budget == nextHandle + Len(calls) + Cardinality(presenting) <= MaxTimers

MicrotaskLanes == {"direct", "initSync"}
MicrotasksPending == \E i \in 1..Len(calls) : calls[i].lane \in MicrotaskLanes

RemoveAt(q, i) == [j \in 1..(Len(q) - 1) |-> IF j < i THEN q[j] ELSE q[j + 1]]

\* the platform's pending callbacks without the one of handle
Without(pending, handle) ==
    [h \in (DOMAIN pending) \ {handle} |-> pending[h]]

\* a variant of clearTimeout that leaves the timer pending
clearTimeoutIgnored(pending, handle) == pending

\* clearTimeout(handle): the pending callback is dropped; a handle that is
\* not pending (fired or cleared before) is ignored
clearTimeout(pending, handle) == Without(pending, handle)

NoTag == <<>>

\* showNotification(title, {body, icon, badge, tag: key, data: {treeId,
\* type}, actions: [done, snooze]}) of the timer callback; key records the
\* key the notification is for
ServiceNotification(key) ==
    [key |-> key, tag |-> key,
     data |-> <<[treeId |-> key[1], type |-> key[2]]>>,
     actions |-> {"done", "snooze"}, showAt |-> 0]

\* new Notification(title, {body, icon, tag: key}) of the timer callback
BasicNotification(key) ==
    [key |-> key, tag |-> key, data |-> <<>>, actions |-> {}, showAt |-> 0]

\* a variant of the worker's snooze that passes no tag
SnoozedUntagged(n, at) ==
    [key |-> n.key, tag |-> NoTag, data |-> <<>>, actions |-> {},
     showAt |-> at + Hour]

\* showNotification(notification.title, {...notification.options,
\* showTrigger: new TimestampTrigger(now + 1h), tag: notification.tag}) of
\* the worker: a Notification has no options property, the spread adds
\* nothing
SnoozedNotification(n, at) ==
    [key |-> n.key, tag |-> n.tag, data |-> <<>>, actions |-> {},
     showAt |-> at + Hour]

\* the platform adds a notification: it replaces the ones of the same tag
Present(list, n) ==
    {m \in list : n.tag = NoTag \/ m.tag # n.tag} \cup {n}

\* the notifications on display: the ones scheduled to show later are not
Displayed == {n \in notificationList : n.showAt <= clock}

\* a variant of init without the test for the Notification API
EnterUnchecked(c) ==
    IF initialized
    THEN /\ calls' = Append(calls, [c EXCEPT !.lane = "direct"])
         /\ UNCHANGED <<serviceVars, settled>>
    ELSE IF initializationError
    THEN /\ settled' = [Settle(c, "rejected", FALSE) EXCEPT !.stored = TRUE]
         /\ UNCHANGED <<calls, initialized, initializationError,
                        serviceWorkerRegistration>>
    ELSE IF serviceWorkerSupported
    THEN /\ calls' = Append(calls, [c EXCEPT !.lane = "initAsync"])
         /\ UNCHANGED <<serviceVars, settled>>
    ELSE /\ initialized' = TRUE
         /\ initializationError' = FALSE
         /\ calls' = Append(calls, [c EXCEPT !.lane = "initSync"])
         /\ UNCHANGED <<serviceWorkerRegistration, settled>>

\* a variant of ensureInitialized that starts init again after a failure
EnterRetrying(c) ==
    IF initialized
    THEN /\ calls' = Append(calls, [c EXCEPT !.lane = "direct"])
         /\ UNCHANGED <<serviceVars, settled>>
    ELSE IF ~notificationSupported
    THEN /\ initializationError' = TRUE
         /\ settled' = Settle(c, "rejected", FALSE)
         /\ UNCHANGED <<calls, initialized, serviceWorkerRegistration>>
    ELSE IF serviceWorkerSupported
    THEN /\ calls' = Append(calls, [c EXCEPT !.lane = "initAsync"])
         /\ UNCHANGED <<serviceVars, settled>>
    ELSE /\ initialized' = TRUE
         /\ initializationError' = FALSE
         /\ calls' = Append(calls, [c EXCEPT !.lane = "initSync"])
         /\ UNCHANGED <<serviceWorkerRegistration, settled>>

\* ensureInitialized and the synchronous part of init, for the call c: the
\* call is suspended in a lane, or rejected with the initialisation error
Enter(c) ==
    IF initialized
    THEN /\ calls' = Append(calls, [c EXCEPT !.lane = "direct"])
         /\ UNCHANGED <<serviceVars, settled>>
    ELSE IF initializationError
    THEN /\ settled' = [Settle(c, "rejected", FALSE) EXCEPT !.stored = TRUE]
         /\ UNCHANGED <<calls, initialized, initializationError,
                        serviceWorkerRegistration>>
    ELSE IF ~notificationSupported
    THEN /\ initializationError' = TRUE
         /\ settled' = Settle(c, "rejected", FALSE)
         /\ UNCHANGED <<calls, initialized, serviceWorkerRegistration>>
    ELSE IF serviceWorkerSupported
    THEN /\ calls' = Append(calls, [c EXCEPT !.lane = "initAsync"])
         /\ UNCHANGED <<serviceVars, settled>>
    ELSE /\ initialized' = TRUE
         /\ initializationError' = FALSE
         /\ calls' = Append(calls, [c EXCEPT !.lane = "initSync"])
         /\ UNCHANGED <<serviceWorkerRegistration, settled>>

\* a variant that never asks for the permission
PermissionNotChecked(c) == FALSE

\* if (Notification.permission !== 'granted') throw, reached by an enable
PermissionRequired(c) == c.enabled /\ permission # "granted"

\* the body of updateMaintenanceSchedule after the await, for the call c
RunBody(c) ==
    LET key == KeyOf(c.treeId, c.type)
        existing == notificationTimers[key]
        cleared == IF existing # NoHandle
                   THEN clearTimeout(timeouts, existing)
                   ELSE timeouts
        \* history kept with the closure: the pending timer this arm replaced
        replaced == IF existing \in DOMAIN timeouts THEN existing ELSE NoHandle
        schedule == Schedule(c.type, c.lastPerformed, c.notificationTime, clock)
        \* history kept with the closure: the timer replaced was pending with
        \* the same schedule, computed at the same instant
        sameAsReplaced ==
            /\ existing \in DOMAIN timeouts
            /\ timeouts[existing].now = schedule.now
            /\ timeouts[existing].timeUntilNotification = schedule.timeUntilNotification
            /\ timeouts[existing].nextDate = schedule.nextDate
        \* history kept with the closure: the timer replaced was pending and
        \* had been armed by the call of a timer callback
        replacedRenewal ==
            /\ existing \in DOMAIN timeouts
            /\ timeouts[existing].renewalOf # <<>>
        closure == [key |-> key, renewalOf |-> c.renewalOf, replaced |-> replaced,
                    sameAsReplaced |-> sameAsReplaced,
                    replacedRenewal |-> replacedRenewal] @@ schedule
    IN  /\ IF c.enabled /\ ~PermissionRequired(c)
           THEN /\ timeouts' = (nextHandle :> closure) @@ cleared
                /\ notificationTimers' = [notificationTimers EXCEPT ![key] = nextHandle]
                /\ nextHandle' = nextHandle + 1
           ELSE \* disabled: return; permission missing: throw
                /\ timeouts' = cleared
                /\ notificationTimers' = [notificationTimers EXCEPT ![key] = NoHandle]
                /\ UNCHANGED nextHandle
        /\ settled' = Settle(c, IF PermissionRequired(c) THEN "rejected"
                                                         ELSE "fulfilled",
                             existing \in DOMAIN timeouts)
        /\ disabledDone' =
              IF c.enabled THEN disabledDone
              ELSE [disabledDone EXCEPT ![key] =
                       ~\E j \in 1..Len(calls) :
                           /\ calls[j].enabled
                           /\ calls[j].renewalOf = <<>>
                           /\ KeyOf(calls[j].treeId, calls[j].type) = key]

\* the application calls updateMaintenanceSchedule and does not wait
IssueUpdate(treeId, type, enabled, lastPerformed, notificationTime) ==
    /\ signedIn
    /\ treeId \notin deletedTrees
    /\ ~draining
    /\ issued < MaxIssued
    /\ Budget
    /\ issued' = issued + 1
    /\ disabledDone' = IF enabled
                       THEN [disabledDone EXCEPT ![KeyOf(treeId, type)] = FALSE]
                       ELSE disabledDone
    /\ Enter([treeId |-> treeId, type |-> type,
              enabled |-> enabled, lastPerformed |-> lastPerformed,
              notificationTime |-> notificationTime, lane |-> "none",
              renewalOf |-> <<>>, cause |-> KeyOf(treeId, type)])
    \* the tree document holds the flag the call is made for
    /\ notifications' = [notifications EXCEPT ![KeyOf(treeId, type)] = enabled]
    /\ UNCHANGED <<calc, appVars, skipped, clock, platformVars, permission, timerVars, draining,
                   presenting, storeVars, lastMaintenance, notificationList>>

\* the microtask queue resumes a suspended call: calls that found the service
\* initialised run in the order issued; the call whose own init completed
\* synchronously has one more promise to wait for and runs after them
ResumeCall(i) ==
    /\ i \in 1..Len(calls)
    /\ calls[i].lane \in MicrotaskLanes
    /\ \A j \in 1..Len(calls) :
          calls[j].lane = "direct" => (i <= j /\ calls[i].lane = "direct")
    /\ RunBody(calls[i])
    /\ calls' = RemoveAt(calls, i)
    /\ draining' = (\E j \in 1..Len(calls) : j # i /\ calls[j].lane \in MicrotaskLanes)
    /\ UNCHANGED <<calc, appVars, skipped, clock, platformVars, permission, serviceVars,
                   presenting, storeVars, issued, docVars, notificationList>>

\* the platform settles the service-worker promises of the oldest call that
\* is inside init: on success init completes and the call's body runs, on
\* failure the error is stored and the call is rejected
InitResolves(ok) ==
    /\ ~MicrotasksPending
    /\ \E i \in 1..Len(calls) :
        /\ calls[i].lane = "initAsync"
        /\ \A j \in 1..(i - 1) : calls[j].lane # "initAsync"
        /\ calls' = RemoveAt(calls, i)
        /\ IF ok
           THEN /\ serviceWorkerRegistration' = TRUE
                /\ initialized' = TRUE
                /\ initializationError' = FALSE
                /\ RunBody(calls[i])
           ELSE /\ initializationError' = TRUE
                /\ settled' = Settle(calls[i], "rejected", FALSE)
                /\ UNCHANGED <<initialized, serviceWorkerRegistration, timerVars,
                               disabledDone>>
    /\ UNCHANGED <<calc, appVars, skipped, clock, platformVars, permission, draining, presenting,
                   storeVars, issued, docVars, notificationList>>

\* a variant of the early-fire check that never finds the callback early
NeverEarly(t, at) == FALSE

\* a variant that passes the instant of the fire as lastPerformed
RenewalFromFireTime(t) ==
    [treeId |-> t.key[1], type |-> t.key[2], enabled |-> TRUE,
     lastPerformed |-> <<toISOString(clock)>>,
     notificationTime |-> <<[hours |-> getHours(t.nextDate),
                             minutes |-> getMinutes(t.nextDate)]>>,
     lane |-> "none", renewalOf |-> <<t.nextDate>>, cause |-> t.key]

\* a variant that disables the key instead of scheduling the next cycle
RenewalDisabling(t) ==
    [treeId |-> t.key[1], type |-> t.key[2], enabled |-> FALSE,
     lastPerformed |-> <<toISOString(t.nextDate)>>,
     notificationTime |-> <<[hours |-> getHours(t.nextDate),
                             minutes |-> getMinutes(t.nextDate)]>>,
     lane |-> "none", renewalOf |-> <<t.nextDate>>, cause |-> t.key]

\* the call the timer callback makes to schedule the next notification
Renewal(t) ==
    [treeId |-> t.key[1], type |-> t.key[2], enabled |-> TRUE,
     lastPerformed |-> <<toISOString(t.nextDate)>>,
     notificationTime |-> <<[hours |-> getHours(t.nextDate),
                             minutes |-> getMinutes(t.nextDate)]>>,
     lane |-> "none", renewalOf |-> <<t.nextDate>>, cause |-> t.key]

\* the early-fire check of the callback: fired more than 1 second early
FiredEarly(t, at) == at - t.now < t.timeUntilNotification - SafetyThreshold

\* the platform runs a timer callback that finds itself early: it returns
FireEarly(h) ==
    /\ ~MicrotasksPending
    /\ h \in DOMAIN timeouts
    /\ FiredEarly(timeouts[h], clock)
    /\ timeouts' = Without(timeouts, h)
    /\ skipped' = TRUE
    /\ UNCHANGED <<calc, appVars, clock, platformVars, permission, serviceVars,
                   notificationTimers, nextHandle, calls, draining, presenting,
                   storeVars, settled, issued, disabledDone, docVars,
                   notificationList>>

\* the callback is not early and there is a service worker registration:
\* it starts showNotification and is suspended at the await
FireShow(h) ==
    /\ ~MicrotasksPending
    /\ h \in DOMAIN timeouts
    /\ Budget
    /\ ~FiredEarly(timeouts[h], clock)
    /\ serviceWorkerRegistration
    /\ timeouts' = Without(timeouts, h)
    /\ skipped' = FALSE
    /\ presenting' = presenting \cup {[handle |-> h, firedAt |-> clock] @@ timeouts[h]}
    /\ UNCHANGED <<calc, appVars, clock, platformVars, permission, serviceVars,
                   notificationTimers, nextHandle, calls, draining, storeVars,
                   settled, issued, disabledDone, docVars, notificationList>>

\* showNotification settles: resolved, the callback calls
\* updateMaintenanceSchedule for the next cycle; rejected, the catch logs
PresentSettles(p, ok) ==
    /\ ~MicrotasksPending
    /\ p \in presenting
    /\ ok => permission = "granted"
    /\ presenting' = presenting \ {p}
    /\ IF ok
       THEN /\ notificationList' = Present(notificationList, ServiceNotification(p.key))
            /\ Enter(Renewal(p))
       ELSE UNCHANGED <<calls, serviceVars, settled, notificationList>>
    /\ UNCHANGED <<calc, appVars, skipped, clock, platformVars, permission, timerVars, draining,
                   storeVars, issued, disabledDone, docVars>>

\* the callback is not early and there is no registration: new Notification
\* is constructed synchronously (or throws), then the next cycle is scheduled
FireBasic(h, ok) ==
    /\ ~MicrotasksPending
    /\ h \in DOMAIN timeouts
    /\ Budget
    /\ ~FiredEarly(timeouts[h], clock)
    /\ ~serviceWorkerRegistration
    /\ timeouts' = Without(timeouts, h)
    /\ skipped' = FALSE
    /\ IF ok
       THEN /\ notificationList' =
                  IF permission = "granted"
                  THEN Present(notificationList, BasicNotification(timeouts[h].key))
                  ELSE notificationList
            /\ Enter(Renewal(timeouts[h]))
       ELSE UNCHANGED <<calls, serviceVars, settled, notificationList>>
    /\ UNCHANGED <<calc, appVars, clock, platformVars, permission, notificationTimers,
                   nextHandle, draining, presenting, storeVars, issued,
                   disabledDone, docVars>>

\* time passes, to one of the sampled instants or to an instant a pending
\* timer is scheduled for
Advance(t) ==
    /\ ~MicrotasksPending
    /\ t > clock
    /\ t <= MaxClock
    /\ clock' = t
    /\ UNCHANGED <<calc, appVars, skipped, platformVars, permission, serviceVars, timerVars, calls,
                   draining, presenting, storeVars, settled, issued, disabledDone,
                   docVars, notificationList>>

AdvanceTargets ==
    ClockInputs \cup {DueInstant(timeouts[h]) : h \in DOMAIN timeouts}
                \cup {timeouts[h].nextDate : h \in DOMAIN timeouts}
                \cup {n.showAt : n \in notificationList}

\* the user grants or revokes the notification permission in the browser
SetPermission(p) ==
    /\ ~MicrotasksPending
    /\ p # permission
    /\ permissionChanges < MaxPermissionChanges
    /\ permissionChanges' = permissionChanges + 1
    /\ permission' = p
    /\ UNCHANGED <<calc, appVars, skipped, clock, platformVars, serviceVars, timerVars, calls,
                   draining, presenting, notificationSettings, signedIn,
                   deletedTrees, settled, issued, disabledDone, docVars,
                   notificationList>>

\* the user changes the tree's notification time in the edit form and
\* saves, the enabled types unchanged: the settings are written to the tree
\* document; neither the form nor updateTree finds a notification change
SaveTimeOfDay(treeId, timeOfDay) ==
    /\ ~MicrotasksPending
    /\ signedIn
    /\ issued < MaxIssued
    /\ issued' = issued + 1
    /\ treeId \notin deletedTrees
    /\ notificationSettings[treeId] # <<>>
    /\ notificationSettings[treeId] # timeOfDay
    /\ notificationSettings' = [notificationSettings EXCEPT ![treeId] = timeOfDay]
    /\ UNCHANGED <<calc, appVars, skipped, clock, platformVars, permission, serviceVars, timerVars,
                   calls, draining, presenting, signedIn, deletedTrees, settled,
                   permissionChanges, disabledDone, docVars, notificationList>>

\* the order in which the snapshot handler visits the keys
SnapshotOrder == <<KeyOf("t1", "watering"), KeyOf("t2", "fertilizing")>>

\* the calls the snapshot handler makes when the trees of the user change:
\* one for every enabled type of every tree, with the document's
\* lastMaintenance and no notificationTime; cause records the key whose
\* operation wrote the document
SnapshotCalls(lastDone, cause) ==
    LET Enabled(k) == notifications[k] /\ k[1] \notin deletedTrees'
        ks == SelectSeq(SnapshotOrder, Enabled)
    IN  [i \in 1..Len(ks) |->
            [treeId |-> ks[i][1], type |-> ks[i][2], enabled |-> TRUE,
             lastPerformed |-> lastDone[ks[i]], notificationTime |-> <<>>,
             lane |-> "direct", renewalOf |-> <<>>, cause |-> cause]]

\* cause of the calls of a snapshot that no operation on a key wrote
NoCause == <<>>

\* handles are left for the calls made
BudgetFor(made) ==
    nextHandle + Len(calls) + Cardinality(presenting) + Len(made) <= MaxTimers + 1

\* the store's snapshot listener runs and makes the calls made: it awaits
\* init first; a failing init is caught and no call is made.  The listener
\* that has to wait for the service worker inside init is left to
\* IssueUpdate.
ListenerRuns(made) ==
    IF initialized
    THEN /\ calls' = calls \o made
         /\ UNCHANGED serviceVars
    ELSE IF ~notificationSupported
    THEN /\ initializationError' = TRUE
         /\ UNCHANGED <<calls, initialized, serviceWorkerRegistration>>
    ELSE IF serviceWorkerSupported
    THEN UNCHANGED <<calls, serviceVars>>
    ELSE /\ initialized' = TRUE
         /\ initializationError' = FALSE
         /\ calls' = calls \o made
         /\ UNCHANGED serviceWorkerRegistration

\* the store's deleteTree: the tree document is deleted, and the snapshot
\* listener runs for the trees that remain
deleteTree(treeId) ==
    /\ ~MicrotasksPending
    /\ signedIn
    /\ issued < MaxIssued
    /\ issued' = issued + 1
    /\ treeId \notin deletedTrees
    /\ deletedTrees' = deletedTrees \cup {treeId}
    /\ BudgetFor(SnapshotCalls(lastMaintenance, NoCause))
    /\ ListenerRuns(SnapshotCalls(lastMaintenance, NoCause))
    /\ UNCHANGED <<calc, appVars, skipped, clock, platformVars, permission, timerVars,
                   draining, presenting, notificationSettings, signedIn,
                   permissionChanges, settled, disabledDone, docVars,
                   notificationList>>

\* the user signs out: the store unsubscribes its listener and empties its
\* list of trees
SignOut ==
    /\ ~MicrotasksPending
    /\ signedIn
    /\ issued < MaxIssued
    /\ issued' = issued + 1
    /\ signedIn' = FALSE
    /\ UNCHANGED <<calc, appVars, skipped, clock, platformVars, permission, serviceVars, timerVars,
                   calls, draining, presenting, notificationSettings, deletedTrees,
                   permissionChanges, settled, disabledDone, docVars,
                   notificationList>>

\* a variant that passes the date recorded before the completion
CompletionCallStale(key, date) ==
    [treeId |-> key[1], type |-> key[2], enabled |-> TRUE,
     lastPerformed |-> lastMaintenance[key], notificationTime |-> <<>>,
     lane |-> "direct", renewalOf |-> <<>>, cause |-> key]

\* the call addMaintenanceLog makes for the type of the log
CompletionCall(key, date) ==
    [treeId |-> key[1], type |-> key[2], enabled |-> TRUE,
     lastPerformed |-> <<date>>, notificationTime |-> <<>>,
     lane |-> "direct", renewalOf |-> <<>>, cause |-> key]

\* the application can react to a completion: the message handler finds the
\* data and addMaintenanceLog finds the tree in the store
CompletionAccepted(n) ==
    /\ n.data # <<>>
    /\ signedIn
    /\ n.data[1].treeId \notin deletedTrees

\* the user chooses "done" on a notification: the worker closes it and posts
\* MAINTENANCE_DONE with its data; the application logs the maintenance with
\* the current date, the snapshot handler sees the changed document and
\* calls for every enabled key, and addMaintenanceLog calls for the key of
\* the log if it is enabled.  The service is initialised (a notification
\* with actions has been presented through its registration), so every call
\* waits in the direct lane.
MarkDone(n) ==
    /\ ~MicrotasksPending
    /\ n \in Displayed
    /\ issued < MaxIssued
    /\ issued' = issued + 1
    /\ "done" \in n.actions
    /\ initialized
    /\ notificationList' = notificationList \ {n}
    /\ UNCHANGED deletedTrees
    /\ IF CompletionAccepted(n)
       THEN LET key == KeyOf(n.data[1].treeId, n.data[1].type)
                date == toISOString(clock)
                written == [lastMaintenance EXCEPT ![key] = <<date>>]
                made == SnapshotCalls(written, key) \o
                            (IF notifications[key]
                             THEN <<CompletionCall(key, date)>> ELSE <<>>)
            IN  /\ nextHandle + Len(calls) + Cardinality(presenting) + Len(made)
                       <= MaxTimers + 1
                /\ lastMaintenance' = written
                /\ calls' = calls \o made
       ELSE UNCHANGED <<lastMaintenance, calls>>
    /\ UNCHANGED <<calc, appVars, skipped, clock, platformVars, permission, serviceVars, timerVars,
                   draining, presenting, notificationSettings, signedIn,
                   permissionChanges, settled, disabledDone, notifications>>

\* the user chooses "snooze": the worker closes the notification and shows
\* it again with a trigger one hour ahead; where TimestampTrigger is not
\* defined the handler throws before showNotification is called, and
\* showNotification rejects without the permission
Snooze(n) ==
    /\ ~MicrotasksPending
    /\ n \in Displayed
    /\ issued < MaxIssued
    /\ issued' = issued + 1
    /\ "snooze" \in n.actions
    /\ notificationList' =
          IF timestampTriggerSupported /\ permission = "granted"
          THEN Present(notificationList \ {n}, SnoozedNotification(n, clock))
          ELSE notificationList \ {n}
    /\ UNCHANGED <<calc, appVars, skipped, clock, platformVars, permission, serviceVars, timerVars,
                   calls, draining, presenting, storeVars, settled,
                   disabledDone, docVars>>

\* the user clicks a notification of the worker outside its actions: the
\* worker closes it and focuses or opens the application
OpenApp(n) ==
    /\ ~MicrotasksPending
    /\ n \in Displayed
    /\ issued < MaxIssued
    /\ issued' = issued + 1
    /\ serviceWorkerRegistration
    /\ notificationList' = notificationList \ {n}
    /\ UNCHANGED <<calc, appVars, skipped, clock, platformVars, permission, serviceVars, timerVars,
                   calls, draining, presenting, storeVars, settled,
                   disabledDone, docVars>>

Next ==
    \/ \E a \in UpdateInputs :
          IssueUpdate(a.treeId, a.type, a.enabled, a.lastPerformed, a.notificationTime)
    \/ \E i \in 1..Len(calls) : ResumeCall(i)
    \/ \E ok \in BOOLEAN : InitResolves(ok)
    \/ \E h \in DOMAIN timeouts : FireEarly(h)
    \/ \E h \in DOMAIN timeouts : FireShow(h)
    \/ \E p \in presenting, ok \in BOOLEAN : PresentSettles(p, ok)
    \/ \E h \in DOMAIN timeouts, ok \in BOOLEAN : FireBasic(h, ok)
    \/ \E t \in AdvanceTargets : Advance(t)
    \/ \E p \in {"granted", "denied"} : SetPermission(p)
    \/ \E t \in TreeIds, timeOfDay \in NewSettings : SaveTimeOfDay(t, timeOfDay)
    \/ \E t \in TreeIds : deleteTree(t)
    \/ SignOut
    \/ \E n \in notificationList : MarkDone(n)
    \/ \E n \in notificationList : Snooze(n)
    \/ \E n \in notificationList : OpenApp(n)

Spec == Init /\ [][Next]_vars

----------------------------------------------------------------------------
(* The reminder loop on its own: the keys stay enabled, the permission     *)
(* stays granted, the platform runs every timer callback when its delay    *)
(* has elapsed and before time passes further, and showNotification and    *)
(* the Notification constructor succeed.  The microtask queue always       *)
(* drains, pending promises of the platform settle, and time passes.       *)

\* the delay passed to setTimeout has elapsed
Elapsed(h) == DueInstant(timeouts[h]) <= clock

\* time passes to t without passing the instant a pending timer is due
PassTo(t) ==
    /\ \A h \in DOMAIN timeouts : ~Elapsed(h) /\ t <= DueInstant(timeouts[h])
    /\ Advance(t)

\* the platform runs the callback of a timer whose delay has elapsed
FireWhenDue(h) ==
    /\ Elapsed(h)
    /\ FireShow(h) \/ FireBasic(h, TRUE)

\* the key has no registry entry and no call for it is suspended: the
\* application arms the keys once, when the snapshot of the trees arrives
Unarmed(k) ==
    /\ notificationTimers[k] = NoHandle
    /\ \A i \in 1..Len(calls) : KeyOf(calls[i].treeId, calls[i].type) # k

NextLoop ==
    \/ \E a \in StoreCalls \cup FormCalls :
          /\ Unarmed(KeyOf(a.treeId, a.type))
          /\ IssueUpdate(a.treeId, a.type, a.enabled, a.lastPerformed, a.notificationTime)
    \/ \E i \in 1..Len(calls) : ResumeCall(i)
    \/ InitResolves(TRUE)
    \/ \E h \in DOMAIN timeouts : FireWhenDue(h)
    \/ \E p \in presenting : PresentSettles(p, TRUE)
    \/ \E t \in AdvanceTargets : PassTo(t)
    \/ \E n \in notificationList : MarkDone(n)
    \/ \E n \in notificationList : Snooze(n)

LoopFairness ==
    /\ WF_vars(\E i \in 1..Len(calls) : ResumeCall(i))
    /\ WF_vars(InitResolves(TRUE))
    /\ WF_vars(\E h \in DOMAIN timeouts : FireWhenDue(h))
    /\ WF_vars(\E p \in presenting : PresentSettles(p, TRUE))
    /\ WF_vars(\E t \in AdvanceTargets : PassTo(t))

SpecLoop == Init /\ [][NextLoop]_vars /\ LoopFairness

----------------------------------------------------------------------------
(* The calculation on its own: one enabled call on an initialised service, *)
(* with the inputs drawn from the sets above, and the call its timer       *)
(* callback makes for the next cycle when it runs at the due instant       *)

InitCalc ==
    /\ calc \in [input : CalcInputs, armed : {NotArmed}, scheduled : {<<>>}]
    /\ ServiceInit
    /\ NoApp

\* one enabled call on an initialised service: arm the computed timer
CalcArm ==
    /\ calc.armed = NotArmed
    /\ calc' = [calc EXCEPT !.armed =
                    <<Schedule(calc.input.type, calc.input.lastPerformed,
                               calc.input.notificationTime, calc.input.now)>>]
    /\ UNCHANGED <<appVars, skipped, clock, platformVars, permission, serviceVars, timerVars, calls,
                   draining, presenting, storeVars, settled, issued, disabledDone,
                   docVars, notificationList>>

\* the timer fires when due and its callback's call arms the next cycle
CalcRenew ==
    /\ Len(calc.armed) = 1
    /\ LET fired == [key |-> KeyOf("t1", calc.input.type)] @@ calc.armed[1]
           r == Renewal(fired)
       IN  calc' = [calc EXCEPT !.armed =
                       Append(calc.armed,
                              Schedule(r.type, r.lastPerformed, r.notificationTime,
                                       DueInstant(fired)))]
    /\ UNCHANGED <<appVars, skipped, clock, platformVars, permission, serviceVars, timerVars, calls,
                   draining, presenting, storeVars, settled, issued, disabledDone,
                   docVars, notificationList>>

\* one call of scheduleNotification of utils/notifications with the
\* permission granted: the computed timer is set
utilsSchedule ==
    /\ calc.scheduled = <<>>
    /\ calc' = [calc EXCEPT !.scheduled =
                    <<scheduleNotification(calc.input.type, calc.input.lastPerformed,
                                           calc.input.now)>>]
    /\ UNCHANGED <<appVars, skipped, clock, platformVars, permission, serviceVars, timerVars, calls,
                   draining, presenting, storeVars, settled, issued, disabledDone,
                   docVars, notificationList>>

\* the utils timer set last fires after its delay; its callback shows the
\* notification and calls scheduleNotification with nextDate.toISOString()
utilsFire ==
    /\ calc.scheduled # <<>>
    /\ Len(calc.scheduled) <= MaxUtilsFires
    /\ LET fired == calc.scheduled[Len(calc.scheduled)]
       IN  calc' = [calc EXCEPT !.scheduled =
                       Append(calc.scheduled,
                              scheduleNotification(calc.input.type,
                                                   <<toISOString(fired.nextDate)>>,
                                                   fired.now + fired.delay))]
    /\ UNCHANGED <<appVars, skipped, clock, platformVars, permission, serviceVars, timerVars, calls,
                   draining, presenting, storeVars, settled, issued, disabledDone,
                   docVars, notificationList>>

NextCalc == CalcArm \/ CalcRenew \/ utilsSchedule \/ utilsFire

SpecCalc == InitCalc /\ [][NextCalc]_vars

----------------------------------------------------------------------------
(* The store and the tree documents.  addDoc and updateDoc are called in   *)
(* the same synchronous run as the read of the store's trees; the snapshot *)
(* that reflects a write reaches the store of a window in a later step.    *)
(* The trees of this part have every reminder type disabled and the        *)
(* notification service is initialised, so that the snapshot handler,      *)
(* addTree and addMaintenanceLog make no call that changes the service.    *)
(* Every open window has received the first snapshot of the collection.    *)

LogTypes == {"watering", "fertilizing"}

\* the number of trees of the free tier
FreeTierTrees == 3

MaxTreeDocs == 5
MaxLogCalls == 2
MaxDone == 1

\* the document addTree writes: no logs, lastMaintenance: {}
NewTreeDoc ==
    [maintenanceLogs |-> <<>>, lastMaintenance |-> [t \in LogTypes |-> <<>>]]

SubscriptionInputs ==
    { <<>>, <<[status |-> "active", planId |-> "premium"]>>,
      <<[status |-> "canceled", planId |-> "premium"]>> }

getCurrentPlan ==
    IF subscription = <<>>
    THEN "hobby"
    ELSE IF subscription[1].status = "active"
         THEN subscription[1].planId
         ELSE "hobby"

isSubscribed == getCurrentPlan # "hobby"

InitStore ==
    /\ calc = NoCalc
    /\ clock = At(Day20240101, 8, 59, 59, 500)
    /\ notificationSupported = TRUE
    /\ serviceWorkerSupported = TRUE
    /\ timestampTriggerSupported = FALSE
    /\ permission = "granted"
    /\ initialized = TRUE
    /\ initializationError = FALSE
    /\ serviceWorkerRegistration = TRUE
    /\ notificationTimers = [k \in Keys |-> NoHandle]
    /\ timeouts = <<>>
    /\ nextHandle = 1
    /\ calls = <<>>
    /\ draining = FALSE
    /\ presenting = {}
    /\ notificationSettings = [t \in TreeIds |-> NotificationSettings(t)]
    /\ signedIn = TRUE
    /\ deletedTrees = {}
    /\ settled = NothingSettled
    /\ issued = 0
    /\ permissionChanges = 0
    /\ disabledDone = [k \in Keys |-> FALSE]
    /\ notificationList = {}
    /\ lastMaintenance = [k \in Keys |-> <<>>]
    /\ notifications = [k \in Keys |-> FALSE]
    /\ skipped = FALSE
    /\ \E n \in 1..FreeTierTrees : treeDocs = [i \in 1..n |-> NewTreeDoc]
    /\ clients \in SUBSET Windows
    /\ trees = [w \in Windows |-> IF w \in clients THEN treeDocs ELSE <<>>]
    /\ error = [w \in Windows |-> <<>>]
    /\ subscription \in SubscriptionInputs
    /\ messages = [w \in Windows |-> <<>>]
    /\ logged = <<>>
    /\ doneChosen = 0

\* the snapshot listener of the window w receives the documents: set({trees})
receiveSnapshot(w) ==
    /\ w \in clients
    /\ trees[w] # treeDocs
    /\ trees' = [trees EXCEPT ![w] = treeDocs]
    /\ UNCHANGED <<calc, skipped, clock, platformVars, permission, serviceVars,
                   timerVars, calls, draining, presenting, storeVars, settled,
                   issued, disabledDone, docVars, notificationList, treeDocs,
                   error, subscription, clients, messages, logged, doneChosen>>

\* the store's addTree in the window w: the limit is checked on the store's
\* trees, then the document is added
addTree(w) ==
    /\ w \in clients
    /\ Len(treeDocs) < MaxTreeDocs
    /\ IF ~isSubscribed /\ Len(trees[w]) >= FreeTierTrees
       THEN /\ error' = [error EXCEPT ![w] = <<"Free tier is limited to 3 trees">>]
            /\ UNCHANGED treeDocs
       ELSE /\ treeDocs' = Append(treeDocs, NewTreeDoc)
            /\ error' = [error EXCEPT ![w] = <<>>]
    /\ UNCHANGED <<calc, skipped, clock, platformVars, permission, serviceVars,
                   timerVars, calls, draining, presenting, storeVars, settled,
                   issued, disabledDone, docVars, notificationList, trees,
                   subscription, clients, messages, logged, doneChosen>>

\* the store's addMaintenanceLog in the window w, with a log of the type
\* dated now: the logs and lastMaintenance of the store's tree, extended by
\* the log, are written to the document.  origin is history only.
addMaintenanceLog(w, treeId, type, origin) ==
    IF treeId \notin DOMAIN trees[w]
    THEN /\ error' = [error EXCEPT ![w] = <<"Tree not found">>]
         /\ UNCHANGED <<treeDocs, logged, clock>>
    ELSE LET tree == trees[w][treeId]
             newLog == [id |-> Len(logged) + 1, type |-> type,
                        date |-> toISOString(clock)]
         IN  /\ Len(logged) < MaxLogCalls
             /\ treeDocs' = [treeDocs EXCEPT ![treeId] =
                    [maintenanceLogs |-> Append(tree.maintenanceLogs, newLog),
                     lastMaintenance |->
                        [tree.lastMaintenance EXCEPT ![type] = <<newLog.date>>]]]
             /\ logged' = Append(logged, [treeId |-> treeId, origin |-> origin] @@ newLog)
             /\ error' = [error EXCEPT ![w] = <<>>]
             /\ clock' = clock + 1

\* the user adds a log in the window w
logMaintenance(w, treeId, type) ==
    /\ w \in clients
    /\ addMaintenanceLog(w, treeId, type, "form")
    /\ UNCHANGED <<calc, skipped, platformVars, permission, serviceVars,
                   timerVars, calls, draining, presenting, storeVars, settled,
                   issued, disabledDone, docVars, notificationList, trees,
                   subscription, clients, messages, doneChosen>>

\* the worker's notificationclick with the action done: the message is
\* posted to every client
doneClick(treeId, type) ==
    /\ doneChosen < MaxDone
    /\ doneChosen' = doneChosen + 1
    /\ messages' = [w \in Windows |->
                       IF w \in clients
                       THEN Append(messages[w],
                                   [type |-> "MAINTENANCE_DONE",
                                    data |-> [treeId |-> treeId, type |-> type]])
                       ELSE messages[w]]
    /\ UNCHANGED <<calc, skipped, clock, platformVars, permission, serviceVars,
                   timerVars, calls, draining, presenting, storeVars, settled,
                   issued, disabledDone, docVars, notificationList, treeDocs,
                   trees, error, subscription, clients, logged>>

\* App's handleMessage in the window w: a log dated now is added for the
\* tree and type of the message
handleMessage(w) ==
    /\ messages[w] # <<>>
    /\ messages' = [messages EXCEPT ![w] = Tail(messages[w])]
    /\ addMaintenanceLog(w, Head(messages[w]).data.treeId,
                         Head(messages[w]).data.type, "done")
    /\ UNCHANGED <<calc, skipped, platformVars, permission, serviceVars,
                   timerVars, calls, draining, presenting, storeVars, settled,
                   issued, disabledDone, docVars, notificationList, trees,
                   subscription, clients, doneChosen>>

NextStore ==
    \/ \E w \in Windows : receiveSnapshot(w)
    \/ \E w \in Windows : addTree(w)
    \/ \E w \in Windows, type \in LogTypes : logMaintenance(w, 1, type)
    \/ \E type \in LogTypes : doneClick(1, type)
    \/ \E w \in Windows : handleMessage(w)

SpecStore == InitStore /\ [][NextStore]_vars

----------------------------------------------------------------------------
(* Properties of the timer registry and the callbacks, checked under Spec *)

PendingFor(k) == {h \in DOMAIN timeouts : timeouts[h].key = k}
\* the timers pending for the key k after the step
PendingAfter(k) == {h \in DOMAIN timeouts' : timeouts'[h].key = k}
IsRenewal(c) == c.renewalOf # <<>>
SameKey(c, d) == c.treeId = d.treeId /\ c.type = d.type

\* the timers this step has armed
NewTimers == (DOMAIN timeouts') \ (DOMAIN timeouts)
\* the body of the suspended call at position i runs in this step
BodyRuns(i) ==
    \/ ResumeCall(i)
    \/ /\ calls[i].lane = "initAsync"
       /\ \A j \in 1..(i - 1) : calls[j].lane # "initAsync"
       /\ InitResolves(TRUE)


\* C2: for every key, a platform timer pending for the key is the one the
\* registry records for it, so at most one is pending; the timer an arm
\* replaced is no longer pending (its callback cannot run).
SingleTimerPerKey ==
    /\ \A k \in Keys :
          /\ Cardinality(PendingFor(k)) <= 1
          /\ \A h \in PendingFor(k) : notificationTimers[k] = h
    /\ \A h \in DOMAIN timeouts : timeouts[h].replaced \notin DOMAIN timeouts

\* C2 witness: a key was armed by the application while its earlier timer
\* was pending, and the new timer is the pending one
SingleTimerWitness ==
    \E h \in DOMAIN timeouts :
        /\ timeouts[h].replaced # NoHandle
        /\ timeouts[h].renewalOf = <<>>
        /\ notificationTimers[timeouts[h].key] = h

\* C3: the calls the application issues for one key take effect in the
\* order issued: when the body of a call runs, no call issued earlier by
\* the application for the same key is still suspended.
CallsApplyInIssueOrder ==
    [][\A i \in 1..Len(calls) :
          (ResumeCall(i) /\ ~IsRenewal(calls[i])) =>
              \A j \in 1..(i - 1) :
                  ~(~IsRenewal(calls[j]) /\ SameKey(calls[j], calls[i]))]_vars

\* C4: once a disable of a key has completed, no timer is pending for the
\* key until the application issues a new enable for it.
DisableIsFinal ==
    \A k \in Keys : disabledDone[k] => PendingFor(k) = {}

PresentFailureStillRearms ==
    [][/\ \A p \in presenting :
            (PresentSettles(p, FALSE) /\ permission = "granted") =>
                \E i \in 1..Len(calls') : calls'[i].renewalOf = <<p.nextDate>>
       /\ \A h \in DOMAIN timeouts :
            (FireBasic(h, FALSE) /\ permission = "granted") =>
                \E i \in 1..Len(calls') :
                    calls'[i].renewalOf = <<timeouts[h].nextDate>>]_vars

\* C7: when a callback runs more than the tolerance before its scheduled
\* instant, the key has a pending timer again (or the call arming it has
\* been made) when the callback returns.
DriftStillRearms ==
    [][\A h \in DOMAIN timeouts :
          FireEarly(h) =>
              \/ PendingAfter(timeouts[h].key) # {}
              \/ \E i \in 1..Len(calls') :
                    calls'[i].renewalOf = <<timeouts[h].nextDate>>]_vars

\* C14: whichever caller of the application arms a key, the timer is due
\* at the time-of-day configured for the tree (the 09:00 default for a tree
\* without settings).
ConfiguredTimeOfDayUsed ==
    [][\A h \in NewTimers :
          timeouts'[h].renewalOf = <<>> =>
              LET setting == notificationSettings[timeouts'[h].key[1]]
                  due == DueInstant(timeouts'[h])
              IN  /\ getHours(due) = HoursOf(setting)
                  /\ getMinutes(due) = MinutesOf(setting)]_vars

\* C15: when the user saves a new time-of-day for a tree, its pending
\* timers are re-armed for the new time-of-day: after the save every timer
\* pending for the tree is due at the new time-of-day, or a call that
\* passes the new time-of-day for its key has been made.
TimeOfDayChangeRearms ==
    [][\A t \in TreeIds, timeOfDay \in NewSettings :
          SaveTimeOfDay(t, timeOfDay) =>
              \A h \in DOMAIN timeouts' :
                  timeouts'[h].key[1] = t =>
                      \/ /\ getHours(DueInstant(timeouts'[h])) = HoursOf(timeOfDay)
                         /\ getMinutes(DueInstant(timeouts'[h])) = MinutesOf(timeOfDay)
                      \/ \E i \in 1..Len(calls') :
                            /\ KeyOf(calls'[i].treeId, calls'[i].type) = timeouts'[h].key
                            /\ calls'[i].enabled
                            /\ calls'[i].notificationTime = timeOfDay]_vars

\* C16: after the user has signed out no timer is pending and no timer
\* callback is presenting a notification.
SessionEndCancelsAll ==
    ~signedIn => (timeouts = <<>> /\ presenting = {})

\* C17: after a tree has been deleted no timer is pending for a key of
\* the tree and no callback of such a key is presenting a notification.
TreeDeletionCancels ==
    \A k \in Keys :
        k[1] \in deletedTrees =>
            /\ PendingFor(k) = {}
            /\ \A p \in presenting : p.key # k

\* C18: when the body of an enable runs while the permission is not
\* granted, the call is rejected, the key is left with no pending timer and
\* no registry entry, no timer is armed and no further call is made.
PermissionErrorOnArming ==
    [][\A i \in 1..Len(calls) :
          (BodyRuns(i) /\ calls[i].enabled /\ permission # "granted") =>
              LET key == KeyOf(calls[i].treeId, calls[i].type)
              IN  /\ settled'.result = "rejected"
                  /\ PendingAfter(key) = {}
                  /\ notificationTimers'[key] = NoHandle
                  /\ NewTimers = {}
                  /\ calls' = RemoveAt(calls, i)]_vars

\* C18 witness: the permission was revoked while a timer was pending, an
\* enable of the application for its key was rejected and its body
\* cancelled the timer; nothing is pending and no call is in flight
PermissionErrorWitness ==
    /\ permission = "denied"
    /\ settled = [renewal |-> FALSE, result |-> "rejected", cleared |-> TRUE,
                 stored |-> FALSE]
    /\ timeouts = <<>>
    /\ calls = <<>>

RedundantCallHarmless ==
    [][\A i \in 1..Len(calls) :
          (BodyRuns(i) /\ calls[i].enabled /\ permission = "granted") =>
              LET key == KeyOf(calls[i].treeId, calls[i].type)
                  s == Schedule(calls[i].type, calls[i].lastPerformed,
                                calls[i].notificationTime, clock)
              IN  \A h \in PendingFor(key) :
                      ( /\ timeouts[h].now = s.now
                        /\ timeouts[h].timeUntilNotification = s.timeUntilNotification
                        /\ timeouts[h].nextDate = s.nextDate )
                      => /\ Cardinality(PendingAfter(key)) = 1
                         /\ Cardinality(DOMAIN timeouts') = Cardinality(DOMAIN timeouts)
                         /\ \A n \in PendingAfter(key) :
                               /\ notificationTimers'[key] = n
                               /\ DueInstant(timeouts'[n]) = DueInstant(timeouts[h])
                               /\ timeouts'[n].nextDate = timeouts[h].nextDate
                         /\ \A o \in (DOMAIN timeouts) \ {h} :
                               o \in DOMAIN timeouts' /\ timeouts'[o] = timeouts[o]]_vars

\* C25 witness: an enable of the application has replaced a pending timer
\* of its key by one with the same schedule, computed at the same instant
RedundantCallWitness ==
    \E h \in DOMAIN timeouts :
        /\ timeouts[h].sameAsReplaced
        /\ timeouts[h].renewalOf = <<>>
        /\ notificationTimers[timeouts[h].key] = h

\* C26: a disable raises no error and leaves no pending timer for its key,
\* whether the key is armed, was disabled just before or was never armed:
\* the call is not rejected when it enters or while it waits for the
\* initialisation, and when its body has run the call is fulfilled and the
\* key has neither a pending timer nor a registry entry.
CancellationIdempotent ==
    [][/\ \A a \in DisableCalls :
             IssueUpdate(a.treeId, a.type, a.enabled, a.lastPerformed,
                         a.notificationTime)
                 => Len(calls') = Len(calls) + 1
       /\ \A i \in 1..Len(calls) :
             ~calls[i].enabled =>
                 /\ ~(calls' = RemoveAt(calls, i) /\ InitResolves(FALSE))
                 /\ BodyRuns(i) =>
                        /\ settled'.result = "fulfilled"
                        /\ PendingAfter(KeyOf(calls[i].treeId, calls[i].type)) = {}
                        /\ notificationTimers'[KeyOf(calls[i].treeId, calls[i].type)]
                               = NoHandle]_vars

\* C30: the registry has an entry for a key only while the timer it
\* refers to is pending: no entry refers to a timer that has fired or was
\* cancelled.
RegistryStates ==
    \A k \in Keys :
        notificationTimers[k] # NoHandle => notificationTimers[k] \in DOMAIN timeouts

\* the timers and the registry entry of the key k are the same after the step
TimersKept(k) ==
    /\ PendingAfter(k) = PendingFor(k)
    /\ \A h \in PendingFor(k) : timeouts'[h] = timeouts[h]
    /\ notificationTimers'[k] = notificationTimers[k]

\* C31: when a timer leaves the platform's pending callbacks because its
\* callback runs, and it runs more than one second before the delay it was
\* armed with has elapsed, the step presents nothing: no notification is
\* added, no showNotification is started and no call is made.
EarlyFireShowsNothing ==
    [][\A h \in DOMAIN timeouts :
          ( /\ h \notin DOMAIN timeouts'
            /\ ~\E i \in 1..Len(calls) : BodyRuns(i)
            /\ clock - timeouts[h].now
                  < timeouts[h].timeUntilNotification - Second )
          => /\ notificationList' = notificationList
             /\ presenting' = presenting
             /\ calls' = calls]_vars

\* C31 witness: a timer callback has run early and returned; nothing is
\* being presented, nothing is held by the platform and no call is suspended
EarlyFireWitness ==
    /\ skipped
    /\ presenting = {}
    /\ notificationList = {}
    /\ calls = <<>>
    /\ \E k \in Keys :
          notificationTimers[k] # NoHandle /\ notificationTimers[k] \notin DOMAIN timeouts

utilsFutureOnly ==
    \A i \in 1..Len(calc.scheduled) :
        /\ calc.scheduled[i].timeUntilNotification > 0
        /\ calc.scheduled[i].now + calc.scheduled[i].delay > calc.scheduled[i].now
        /\ i > 1 => calc.scheduled[i].now > calc.scheduled[i - 1].now

\* the successful addMaintenanceLog calls a done action has led to
DoneLogs == {i \in 1..Len(logged) : logged[i].origin = "done"}

\* C35: when one done action has been chosen, every window has handled its
\* message without an error and no log was added otherwise, exactly one
\* addMaintenanceLog call has written lastMaintenance and the tree's
\* document holds exactly one log.
OneDoneOneLog ==
    ( /\ doneChosen = 1
      /\ \A w \in Windows : messages[w] = <<>> /\ error[w] = <<>>
      /\ clients # {}
      /\ \A i \in 1..Len(logged) : logged[i].origin = "done" )
    => /\ Cardinality(DoneLogs) = 1
       /\ \A i \in DoneLogs : Len(treeDocs[logged[i].treeId].maintenanceLogs) = 1

\* the latest date among the calls that logged the type on the tree
LatestLogged(treeId, type) ==
    LET dates == {NewDate(logged[i].date) : i \in
                     {j \in 1..Len(logged) :
                         logged[j].treeId = treeId /\ logged[j].type = type}}
    IN  CHOOSE d \in dates : \A e \in dates : e <= d

\* C36: the document of a tree holds a log for every addMaintenanceLog call
\* that succeeded on it, and its lastMaintenance holds, for every type that
\* was logged, the latest date logged.
NoLogLost ==
    \A i \in 1..Len(logged) :
        LET doc == treeDocs[logged[i].treeId]
        IN  /\ \E j \in 1..Len(doc.maintenanceLogs) :
                   doc.maintenanceLogs[j].id = logged[i].id
            /\ doc.lastMaintenance[logged[i].type]
                   = <<toISOString(LatestLogged(logged[i].treeId, logged[i].type))>>

\* C37: the collection of a user on the hobby plan never holds more than
\* the trees of the free tier.
FreeTierLimit ==
    ~isSubscribed => Len(treeDocs) <= FreeTierTrees

\* C33: when the body of the last call of a snapshot has run with the
\* permission granted and no other call pending, the keys with a pending
\* timer are the keys that are enabled in a tree of the snapshot.
TimersFollowStore ==
    [][\A i \in 1..Len(calls) :
          ( /\ BodyRuns(i)
            /\ calls[i].cause = NoCause
            /\ Len(calls) = 1
            /\ permission = "granted" )
          => \A k \in Keys :
                (PendingAfter(k) # {}) <=> (notifications[k] /\ k[1] \notin deletedTrees)]_vars

\* C22: a snooze on a notification of a key leaves exactly one notification
\* of that key, scheduled to show one hour later and still offering done
\* with the key's data, and changes neither lastMaintenance nor any timer
\* nor the registry.
SnoozeIndependence ==
    [][\A n \in notificationList :
          Snooze(n) =>
              /\ \E m \in notificationList' :
                    /\ m.key = n.key
                    /\ m.showAt = clock + Hour
                    /\ "done" \in m.actions
                    /\ m.data = n.data
              /\ Cardinality({m \in notificationList' : m.key = n.key}) = 1
              /\ lastMaintenance' = lastMaintenance
              /\ \A k \in Keys : TimersKept(k)
              /\ calls' = calls]_vars

\* C23: when the user chooses done on a notification of an enabled key of
\* a tree the store holds, the data carry the tree and type of the key,
\* lastMaintenance of the key becomes the current instant and a call that
\* enables the key with that lastPerformed is made; when the body of a
\* call made for a completion runs with the permission granted, the key's
\* only pending timer afterwards is the one it arms, computed from the new
\* lastMaintenance, and no timer armed by self-renewal remains.
MarkAsDone ==
    [][/\ \A n \in notificationList :
            (MarkDone(n) /\ CompletionAccepted(n) /\ notifications[n.key]) =>
                /\ n.data[1] = [treeId |-> n.key[1], type |-> n.key[2]]
                /\ lastMaintenance'[n.key] = <<toISOString(clock)>>
                /\ Len(calls') > Len(calls)
                /\ LET made == calls'[Len(calls')]
                   IN  /\ KeyOf(made.treeId, made.type) = n.key
                       /\ made.enabled
                       /\ made.lastPerformed = lastMaintenance'[n.key]
       /\ \A i \in 1..Len(calls) :
            LET key == KeyOf(calls[i].treeId, calls[i].type)
            IN  ( /\ BodyRuns(i)
                  /\ calls[i].enabled
                  /\ calls[i].renewalOf = <<>>
                  /\ lastMaintenance[key] # <<>>
                  /\ calls[i].lastPerformed = lastMaintenance[key]
                  /\ permission = "granted" )
                => /\ PendingAfter(key) = {nextHandle}
                   /\ notificationTimers'[key] = nextHandle
                   /\ timeouts'[nextHandle].renewalOf = <<>>
                   /\ timeouts'[nextHandle].nextDate =
                         Schedule(calls[i].type, lastMaintenance[key],
                                  calls[i].notificationTime, clock).nextDate]_vars

\* C23 witness: after a done, a timer armed from the new lastMaintenance
\* is pending for the key and the timer it replaced had been armed by
\* self-renewal
MarkAsDoneWitness ==
    \E h \in DOMAIN timeouts :
        /\ lastMaintenance[timeouts[h].key] # <<>>
        /\ timeouts[h].renewalOf = <<>>
        /\ timeouts[h].replacedRenewal
        /\ notificationTimers[timeouts[h].key] = h
        /\ timeouts[h].nextDate =
              Schedule(timeouts[h].key[2], lastMaintenance[timeouts[h].key],
                       <<>>, timeouts[h].now).nextDate

\* C24: every notification the platform holds for a key carries the data
\* {treeId, type} of the key and the actions done and snooze.
PayloadRoundTrip ==
    \A n \in notificationList :
        /\ n.data = <<[treeId |-> n.key[1], type |-> n.key[2]]>>
        /\ n.actions = {"done", "snooze"}

\* C27: the pending timers and the registry entry of a key change only in
\* a step of an operation for that key: the body of a call made for the
\* key's own enable, disable, self-renewal or done, or the fire of one of
\* the key's timers.
KeysIndependent ==
    [][\A k \in Keys :
          \/ TimersKept(k)
          \/ \E i \in 1..Len(calls) :
                /\ BodyRuns(i)
                /\ calls[i].cause = k
                /\ KeyOf(calls[i].treeId, calls[i].type) = k
          \/ \E h \in PendingFor(k) :
                FireEarly(h) \/ FireShow(h) \/ \E ok \in BOOLEAN : FireBasic(h, ok)]_vars

\* a timer of the key k has fired and the call for the next cycle has not
\* run yet
RenewalDue(k) ==
    \/ \E p \in presenting : p.key = k
    \/ \E i \in 1..Len(calls) :
          IsRenewal(calls[i]) /\ KeyOf(calls[i].treeId, calls[i].type) = k

\* the exploration ends before the timer h can fire: it is due after the
\* last instant of the clock, or no handle is left for the next cycle
BeyondHorizon(h) ==
    \/ DueInstant(timeouts[h]) > MaxClock
    \/ ~Budget

\* C28: in the reminder loop, after each fire of a timer of a key the key
\* has a pending timer again, and a key with a pending timer eventually
\* has a timer fire, up to the horizon of the exploration.
ReminderLoopLiveness ==
    \A k \in Keys :
        /\ RenewalDue(k) ~> (PendingFor(k) # {})
        /\ (PendingFor(k) # {}) ~>
              (RenewalDue(k) \/ \E h \in PendingFor(k) : BeyondHorizon(h))

\* C28 witness: the loop has gone round twice: a timer whose notification
\* was for the third cycle of the key or later has fired, its notification
\* is held by the platform, and the call of its callback has armed the
\* timer of the cycle after it
ReminderLoopWitness ==
    \E h \in DOMAIN timeouts :
        /\ timeouts[h].renewalOf # <<>>
        /\ timeouts[h].renewalOf[1] >=
              At(Day20240101, 9, 0, 0, 0) + 2 * Interval(timeouts[h].key[2])
        /\ notificationTimers[timeouts[h].key] = h
        /\ \E n \in Displayed : n.key = timeouts[h].key

PermissionCheckedAtBothPoints ==
    [][/\ NewTimers # {} => permission = "granted"
       /\ \A h \in DOMAIN timeouts :
             (FireShow(h) \/ FireBasic(h, TRUE) \/ FireBasic(h, FALSE))
                 => permission = "granted"]_vars

\* C20: no call of updateMaintenanceSchedule, by the application or by a
\* timer callback, ends rejected.
NoErrorEscapes ==
    settled.result # "rejected"

----------------------------------------------------------------------------
(* Properties of the schedule calculation, checked under SpecCalc *)

CalcArmed == calc.armed # NotArmed
CalcFirst ==
    FirstNextDate(calc.input.type, calc.input.lastPerformed,
                  calc.input.notificationTime, calc.input.now)

\* C1: whatever the type, the time-of-day, lastPerformed and now are, the
\* timer an enabled call arms is due strictly after now: both the nextDate
\* it records and the instant its delay leads to are later than now.
FutureOnly ==
    CalcArmed =>
        /\ calc.armed[1].nextDate > calc.input.now
        /\ DueInstant(calc.armed[1]) > calc.input.now

\* C1 witness: armed from a lastPerformed so old that the loop had to add
\* at least two intervals
FutureOnlyWitness ==
    /\ CalcArmed
    /\ calc.input.lastPerformed # <<>>
    /\ CalcFirst + Interval(calc.input.type) <= calc.input.now

\* the first candidate computed from the lastPerformed given to the call
CalcOverdue ==
    /\ CalcArmed
    /\ calc.input.lastPerformed # <<>>
    /\ NewDate(calc.input.lastPerformed[1]) + Interval(calc.input.type)
           < calc.input.now

\* C11: when lastPerformed is more than one interval in the past, the timer
\* is due at (lastPerformed + interval, snapped to the time-of-day) plus
\* k intervals for the smallest k >= 0 that is later than now; repotting
\* last performed 2023-01-01, evaluated at noon of 2024-06-01 for 09:00, is
\* due at 09:00 two intervals after 2023-01-01.
OverdueAligned ==
    /\ CalcOverdue =>
          LET due == DueInstant(calc.armed[1])
              step == Interval(calc.input.type)
          IN  /\ due >= CalcFirst
              /\ (due - CalcFirst) % step = 0
              /\ due > calc.input.now
              /\ due = CalcFirst \/ due - step <= calc.input.now
    /\ ( /\ CalcArmed
         /\ calc.input.type = "repotting"
         /\ calc.input.lastPerformed = <<toISOString(At(0, 0, 0, 0, 0))>>
         /\ calc.input.now = At(Day20240601, 12, 0, 0, 0)
         /\ calc.input.notificationTime = <<>> )
       => DueInstant(calc.armed[1])
             = At(0, DefaultHours, DefaultMinutes, 0, 0) + 2 * Interval("repotting")

\* C11 witness: the repotting scenario has been armed, and its first
\* candidate was not later than now
OverdueAlignedWitness ==
    /\ CalcOverdue
    /\ calc.input.type = "repotting"
    /\ calc.input.lastPerformed = <<toISOString(At(0, 0, 0, 0, 0))>>
    /\ calc.input.now = At(Day20240601, 12, 0, 0, 0)
    /\ CalcFirst <= calc.input.now

\* C12: when lastPerformed is more than one interval in the past, the
\* timer is due at the next occurrence of the time-of-day after now, that
\* is within one day of now, whatever the type's interval is.
OverdueFiresWithinADay ==
    CalcOverdue => DueInstant(calc.armed[1]) - calc.input.now <= Day

\* C13: every timer armed, by the first call and by the call of the
\* self-renewal, is due at the time-of-day given to the first call (09:00
\* when none is given) with seconds and milliseconds zero, and so is the
\* nextDate it records.
TimeOfDaySnap ==
    \A n \in 1..Len(calc.armed) :
        \A t \in {DueInstant(calc.armed[n]), calc.armed[n].nextDate} :
            /\ getHours(t) = HoursOf(calc.input.notificationTime)
            /\ getMinutes(t) = MinutesOf(calc.input.notificationTime)
            /\ getSeconds(t) = 0
            /\ getMilliseconds(t) = 0

\* C13 witness: a lastPerformed with seconds and milliseconds, a
\* time-of-day other than the default, and the self-renewal has armed
TimeOfDaySnapWitness ==
    /\ Len(calc.armed) = 2
    /\ calc.input.lastPerformed # <<>>
    /\ calc.input.lastPerformed[1].millis # 0
    /\ calc.input.lastPerformed[1].seconds # 0
    /\ calc.input.notificationTime = <<[hours |-> 14, minutes |-> 30]>>

\* C8: a type enabled with no lastPerformed is armed close to one full
\* interval after now (within a day of it), never seconds or minutes after.
NoImmediateFire ==
    (CalcArmed /\ calc.input.lastPerformed = <<>>) =>
        calc.armed[1].timeUntilNotification >= Interval(calc.input.type) - Day

\* C9: no timer is armed with a delay at or below the safety threshold, and
\* the delay given to the platform timer leads to the (enlarged) nextDate.
GuardClause ==
    CalcArmed =>
        /\ calc.armed[1].timeUntilNotification > SafetyThreshold
        /\ DueInstant(calc.armed[1]) = calc.armed[1].nextDate

\* C10: watering enabled with no history at 2024-01-01T09:00:00 for 09:00 is
\* due at 2024-01-03T09:00:00; in general a first candidate equal to now is
\* not accepted: the timer is due exactly one interval after now.
BoundaryScenario ==
    /\ ( /\ CalcArmed
         /\ calc.input.type = "watering"
         /\ calc.input.lastPerformed = <<>>
         /\ calc.input.now = At(Day20240101, 9, 0, 0, 0)
         /\ HoursOf(calc.input.notificationTime) = 9
         /\ MinutesOf(calc.input.notificationTime) = 0 )
       => /\ calc.armed[1].nextDate = At(Day20240101 + 2, 9, 0, 0, 0)
          /\ DueInstant(calc.armed[1]) = At(Day20240101 + 2, 9, 0, 0, 0)
    /\ (CalcArmed /\ CalcFirst = calc.input.now)
       => /\ calc.armed[1].nextDate = calc.input.now + Interval(calc.input.type)
          /\ DueInstant(calc.armed[1]) = calc.input.now + Interval(calc.input.type)

\* C10 witness: the scenario itself has been armed
BoundaryScenarioWitness ==
    /\ CalcArmed
    /\ calc.input.type = "watering"
    /\ calc.input.lastPerformed = <<>>
    /\ calc.input.now = At(Day20240101, 9, 0, 0, 0)
    /\ calc.input.notificationTime = <<[hours |-> 9, minutes |-> 0]>>
    /\ CalcFirst = calc.input.now

====
